---- MODULE Spec2Model ----
(***************************************************************************)
(* git-stack: the commit graph (a tree of linear runs), the annotation     *)
(* passes of src/graph/ops.rs and the script generator; and the amend      *)
(* command of src/bin/git-stack/amend.rs; and the layering of the          *)
(* configuration of src/config.rs.                                         *)
(*                                                                         *)
(* A graph is a function from node ids to node records.  Node 0 is the     *)
(* graph root; a node's commit id is its node id.  A node's stacks field   *)
(* is a sequence of stacks, each a non-empty sequence of node ids.         *)
(***************************************************************************)
EXTENDS Integers, Sequences, FiniteSets, TLC

VARIABLES
    graph,          \* root Node and everything reachable through stacks
    protected_oids, \* protected_branches.oids(): commits of protected tips
    last,           \* the pass applied last
    again,          \* the last pass was applied twice in succession
    changed,        \* the last pass changed the graph
    new_base,       \* new_base, when the last pass was rebase_branches
    onto,           \* tree ids of onto, when the last pass was drop_by_tree_id
    frozen,         \* nodes protect_branches marked Protected
    script,         \* result of to_script
    pc,             \* AmendArgs::exec: the statement to run next
    args,           \* AmendArgs: all, interactive, edit, message, dry_run
    exit_code,      \* the code exec ended with
    error,          \* the failure exec ended with
    effects,        \* what exec did to the repository, in order
    executor,       \* Executor::new(dry_run): "dry" or "real"
    scripts,        \* number of scripts to_scripts returned
    ran,            \* number of scripts handed to executor.run
    success,        \* the success flag of exec
    closed,         \* number of calls of executor.close
    layers,         \* RepoConfig::from_all: what the three layers hold
    config,         \* RepoConfig::from_all: the local `config`
    loaded          \* RepoConfig::from_all: the layers merged so far

gvars == <<graph, protected_oids, last, again, changed, new_base, onto, frozen, script>>
avars == <<pc, args, exit_code, error, effects, executor, scripts, ran, success, closed>>
cvars == <<layers, config, loaded>>
vars == <<gvars, avars, cvars>>

\* Bound of the model: the number of nodes of a graph, the root included.
MaxNodes == 3

\* Oids that are no commit of the graph: ExtOid descends from the root,
\* OtherOid does not.
ExtOid == MaxNodes
OtherOid == MaxNodes + 1
NoOid == 0 - 1
Root == 0

\* Exit codes of proc_exit: sysexits USAGE_ERR and CONFIG_ERR, Code::FAILURE,
\* Code::SUCCESS; and the exit code of a Rust process that panicked.
USAGE_ERR == 64
CONFIG_ERR == 78
FAILURE == 1
SUCCESS == 0
PANIC == 101
NoExit == 0 - 1

\* exec has not been called.
AmendIdle ==
    /\ pc = "idle"
    /\ args = [all |-> FALSE, interactive |-> FALSE, edit |-> FALSE,
               message |-> FALSE, dry_run |-> FALSE]
    /\ exit_code = NoExit
    /\ error = "none"
    /\ effects = <<>>
    /\ executor = "none"
    /\ scripts = 0
    /\ ran = 0
    /\ success = TRUE
    /\ closed = 0

\* Option<Vec<String>>: the protected_branches field of RepoConfig.
None == [some |-> FALSE, list |-> <<>>]
Some(l) == [some |-> TRUE, list |-> l]

\* from_all has not been called.
ConfigIdle ==
    /\ layers = [gitconfig |-> "unreadable", workdir |-> None, repo |-> None]
    /\ config = None
    /\ loaded = "idle"

\* ---------------------------------------------------------------- Action
Pick == [tag |-> "Pick", base |-> NoOid]
Protected == [tag |-> "Protected", base |-> NoOid]
Delete == [tag |-> "Delete", base |-> NoOid]
Rebase(nb) == [tag |-> "Rebase", base |-> nb]

is_protected(a) == a.tag = "Protected"
is_rebase(a) == a.tag = "Rebase"

\* ---------------------------------------------------------------- Node
\* Branch names are numbers: the j-th branch attached to node n.
BranchName(n, j) == n * 10 + j

RECURSIVE BranchList(_, _)
BranchList(n, k) ==
    IF k = 0 THEN <<>> ELSE Append(BranchList(n, k - 1), BranchName(n, k))

\* The tree id of commit n: trees differ from commit to commit and are no
\* commit ids.
TreeId(n) == MaxNodes + 2 + n

\* Node::new: action Pick, not pushable.  wip says that the commit's summary
\* is a WIP summary, pushed holds the branches b with Some(b.id) == b.push_id.
NewNode(n, k, st) ==
    [action |-> Pick, branches |-> BranchList(n, k), stacks |-> st,
     pushable |-> FALSE, tree_id |-> TreeId(n), wip |-> FALSE, pushed |-> {}]

Range(s) == {s[i] : i \in 1..Len(s)}

\* ---------------------------------------------------------------- graphs
\* A shape gives every non-root node i a predecessor par[i] < i and says
\* whether i follows par[i] in the same stack ("next") or heads a new stack
\* of par[i] ("head").  Nodes are numbered in depth-first order, so that
\* every tree of stacks is drawn once or twice and not once per numbering.
RECURSIVE Above(_, _)
Above(par, i) == IF i = Root THEN {} ELSE {par[i]} \cup Above(par, par[i])

Shapes(n) ==
    {sh \in [par : [1..(n - 1) -> 0..(n - 1)], link : [1..(n - 1) -> {"next", "head"}]] :
        /\ \A i \in 1..(n - 1) : sh.par[i] < i
        /\ \A i \in 2..(n - 1) : sh.par[i] \in {i - 1} \cup Above(sh.par, i - 1)
        /\ \A i \in 1..(n - 1) : sh.link[i] = "next" => sh.par[i] # Root
        /\ \A i, j \in 1..(n - 1) :
              (i # j /\ sh.link[i] = "next" /\ sh.link[j] = "next")
                  => sh.par[i] # sh.par[j]}

RECURSIVE Chain(_, _, _)
Chain(sh, n, h) ==
    LET nx == {i \in 1..(n - 1) : sh.par[i] = h /\ sh.link[i] = "next"}
    IN  IF nx = {} THEN <<h>>
        ELSE <<h>> \o Chain(sh, n, CHOOSE i \in nx : TRUE)

RECURSIVE StacksFrom(_, _, _, _)
StacksFrom(sh, n, p, i) ==
    IF i >= n THEN <<>>
    ELSE IF sh.par[i] = p /\ sh.link[i] = "head"
         THEN <<Chain(sh, n, i)>> \o StacksFrom(sh, n, p, i + 1)
         ELSE StacksFrom(sh, n, p, i + 1)

GraphOf(sh, n, nbr) ==
    [p \in 0..(n - 1) |-> NewNode(p, nbr[p], StacksFrom(sh, n, p, 1))]

Nodes(g) == DOMAIN g

\* ---------------------------------------------------------------- helpers
SetAction(g, n, a) == [g EXCEPT ![n].action = a]

\* The nodes of a graph with their owner: Owner(g, n) is the node whose
\* stacks hold n.
InStackOf(g, p, n) == \E k \in 1..Len(g[p].stacks) : n \in Range(g[p].stacks[k])
Owner(g, n) == CHOOSE p \in Nodes(g) : InStackOf(g, p, n)
StackOf(g, n) ==
    LET p == Owner(g, n)
        k == CHOOSE k \in 1..Len(g[p].stacks) : n \in Range(g[p].stacks[k])
    IN  g[p].stacks[k]
IndexIn(s, n) == CHOOSE i \in 1..Len(s) : s[i] = n
\* The parent commit of a non-root node: the node before it in its stack,
\* or the owner of the stack for the first node of a stack.
Parent(g, n) ==
    LET s == StackOf(g, n)
        i == IndexIn(s, n)
    IN  IF i = 1 THEN Owner(g, n) ELSE s[i - 1]

RECURSIVE Ancestors(_, _)
Ancestors(g, n) ==
    IF n = Root THEN {}
    ELSE LET p == Parent(g, n) IN {p} \cup Ancestors(g, p)

\* ------------------------------------------------------- protect_branches
RECURSIVE protect_stack(_, _, _, _, _)
RECURSIVE protect_stacks(_, _, _, _, _)

\* Mutant of ProtectHit: a protected node later in the stack is forgotten.
ProtectHit_NoDescendant(descendant_protected, stacks_protected, self_protected) ==
    stacks_protected \/ self_protected

\* if descendant_protected || stacks_protected || self_protected
ProtectHit(descendant_protected, stacks_protected, self_protected) ==
    descendant_protected \/ stacks_protected \/ self_protected

\* for node in nodes.iter_mut().rev(): i runs from Len(nodes) down to 1.
protect_stack(g, po, nodes, i, descendant_protected) ==
    IF i = 0 THEN [g |-> g, ret |-> descendant_protected]
    ELSE
        LET node == nodes[i]
            r == protect_stacks(g, po, g[node].stacks, 1, FALSE)
            self_protected == node \in po
            hit == ProtectHit(descendant_protected, r.ret, self_protected)
            g2 == IF hit THEN SetAction(r.g, node, Protected) ELSE r.g
        IN  protect_stack(g2, po, nodes, i - 1, hit)

\* for stack in node.stacks.iter_mut(): stacks_protected |= ...
protect_stacks(g, po, stacks, k, stacks_protected) ==
    IF k > Len(stacks) THEN [g |-> g, ret |-> stacks_protected]
    ELSE
        LET r == protect_stack(g, po, stacks[k], Len(stacks[k]), FALSE)
        IN  protect_stacks(r.g, po, stacks, k + 1, stacks_protected \/ r.ret)

protect_branches_internal(g, po, nodes) ==
    protect_stack(g, po, nodes, Len(nodes), FALSE)

\* repo.merge_base(root, oid), answering ancestry truthfully: the root is
\* the merge base of itself and any commit that descends from it, which all
\* commits of the graph and ExtOid do.  OtherOid and the root share an
\* older commit, or none.
merge_base(g, a, b) == IF b \in Nodes(g) \cup {ExtOid} THEN a ELSE NoOid

\* Mutant of RootIsBase: the root is never taken for the base.
RootIsBase_Never(g, po) == FALSE

\* Mutant of RootIsBase: the root is judged by the actions its stacks
\* carry before protect_branches_internal has visited them.
RootIsBase_FromActions(g, po) ==
    \E n \in Nodes(g) \ {Root} : g[n].action = Protected

\* The loop over protected_branches.oids(): some tip has the root as its
\* merge base with the root.
RootIsBase(g, po) == \E protected_oid \in po : merge_base(g, Root, protected_oid) = Root

RECURSIVE protect_root_stacks(_, _, _)
protect_root_stacks(g, po, k) ==
    IF k > Len(g[Root].stacks) THEN g
    ELSE protect_root_stacks(
             protect_branches_internal(g, po, g[Root].stacks[k]).g, po, k + 1)

protect_branches(g, po) ==
    LET g1 == IF RootIsBase(g, po) THEN SetAction(g, Root, Protected) ELSE g
    IN  protect_root_stacks(g1, po, 1)

\* -------------------------------------------------------- rebase_branches
RECURSIVE rebase_branches_internal(_, _, _)
RECURSIVE rebase_stack(_, _, _, _)
RECURSIVE rebase_stacks(_, _, _, _, _)

\* for node in stack.iter_mut().rev(): stop at the first node that rebased.
rebase_stack(g, nb, stack, i) ==
    IF i = 0 THEN [g |-> g, ret |-> FALSE]
    ELSE
        LET r == rebase_branches_internal(g, stack[i], nb)
        IN  IF r.ret THEN [g |-> r.g, ret |-> TRUE]
            ELSE rebase_stack(r.g, nb, stack, i - 1)

\* Mutant of AllStacksRebased: the last stack alone decides.
AllStacksRebased_Last(all_stacks_rebased, stack_rebased) == stack_rebased

\* if !stack_rebased { all_stacks_rebased = false; }
AllStacksRebased(all_stacks_rebased, stack_rebased) ==
    all_stacks_rebased /\ stack_rebased

rebase_stacks(g, nb, stacks, k, all_stacks_rebased) ==
    IF k > Len(stacks) THEN [g |-> g, ret |-> all_stacks_rebased]
    ELSE
        LET r == rebase_stack(g, nb, stacks[k], Len(stacks[k]))
        IN  rebase_stacks(r.g, nb, stacks, k + 1,
                          AllStacksRebased(all_stacks_rebased, r.ret))

\* Mutant of RebaseSelf: every node but new_base is marked, Protected or not.
RebaseSelf_Any(g, node, nb) ==
    IF node = nb THEN [g |-> g, ret |-> TRUE]
    ELSE [g |-> SetAction(g, node, Rebase(nb)), ret |-> TRUE]

\* Mutant of RebaseSelf: a Protected node reports the rebase and keeps its
\* action.
RebaseSelf_Unmarked(g, node, nb) ==
    [g |-> g, ret |-> (node = nb \/ g[node].action = Protected)]

\* if id == new_base { true } else if action == Protected { action =
\* Rebase(new_base); true } else { false }
RebaseSelf(g, node, nb) ==
    IF node = nb THEN [g |-> g, ret |-> TRUE]
    ELSE IF g[node].action = Protected
         THEN [g |-> SetAction(g, node, Rebase(nb)), ret |-> TRUE]
         ELSE [g |-> g, ret |-> FALSE]

rebase_branches_internal(g, node, nb) ==
    IF g[node].stacks # <<>>
    THEN LET r == rebase_stacks(g, nb, g[node].stacks, 1, TRUE)
         IN  IF r.ret THEN [g |-> r.g, ret |-> TRUE]
             ELSE RebaseSelf(r.g, node, nb)
    ELSE RebaseSelf(g, node, nb)

rebase_branches(g, nb) == rebase_branches_internal(g, Root, nb).g

\* ---------------------------------------------------------------- pushable
\* node.local_commit.wip_summary().is_some()
wip_summary(g, n) == g[n].wip

\* Mutant of already_pushed: one branch at its push target is enough.
already_pushed_Any(g, n) == \E b \in Range(g[n].branches) : b \in g[n].pushed

\* node.branches.iter().all(|b| Some(b.id) == b.push_id)
already_pushed(g, n) == \A b \in Range(g[n].branches) : b \in g[n].pushed

RECURSIVE pushable_stack(_, _, _, _)
RECURSIVE pushable_stacks(_, _, _)

\* cause is TRUE for Some(..); panic records a failed assert_eq!(cause, None).
pushable_stack(g, nodes, i, cause) ==
    IF i > Len(nodes) THEN [g |-> g, panic |-> FALSE]
    ELSE
        LET node == nodes[i]
            a == g[node].action
        IN  IF is_protected(a) \/ is_rebase(a)
            THEN IF cause THEN [g |-> g, panic |-> TRUE]
                 ELSE LET r == pushable_stacks(g, g[node].stacks, 1)
                      IN  IF r.panic THEN r
                          ELSE pushable_stack(r.g, nodes, i + 1, cause)
            ELSE
                LET cause2 == cause \/ wip_summary(g, node)
                IN  IF g[node].branches # <<>>
                    THEN IF cause2 \/ already_pushed(g, node)
                         THEN [g |-> g, panic |-> FALSE]
                         ELSE [g |-> [g EXCEPT ![node].pushable = TRUE],
                               panic |-> FALSE]
                    ELSE pushable_stack(g, nodes, i + 1,
                                        cause2 \/ g[node].stacks # <<>>)

pushable_stacks(g, stacks, k) ==
    IF k > Len(stacks) THEN [g |-> g, panic |-> FALSE]
    ELSE LET r == pushable_stack(g, stacks[k], 1, FALSE)
         IN  IF r.panic THEN r ELSE pushable_stacks(r.g, stacks, k + 1)

\* Mutant of RootGate: the stacks of the root are always walked.
RootGate_Always(g) == TRUE

\* if node.action.is_protected() || node.action.is_rebase() ||
\*    node.branches.is_empty()
RootGate(g) ==
    is_protected(g[Root].action) \/ is_rebase(g[Root].action) \/ g[Root].branches = <<>>

pushable(g) ==
    IF RootGate(g)
    THEN pushable_stacks(g, g[Root].stacks, 1)
    ELSE [g |-> g, panic |-> FALSE]

\* --------------------------------------------------------- drop_by_tree_id
RECURSIVE stack_drop_by_tree_id(_, _, _)
RECURSIVE drop_stack(_, _, _, _, _, _)
RECURSIVE drop_stacks(_, _, _, _, _)

\* Mutant of TreeInOnto: the commit id is looked up instead of the tree id.
TreeInOnto_CommitId(g, node, tree_ids) == node \in tree_ids

\* onto.contains(&node.local_commit.tree_id)
TreeInOnto(g, node, tree_ids) == g[node].tree_id \in tree_ids

\* for stack in node.stacks.iter_mut(): moved.extend(stack_drop_by_tree_id(..))
drop_stacks(g, tree_ids, stacks, k, moved) ==
    IF k > Len(stacks) THEN [g |-> g, moved |-> moved]
    ELSE LET r == stack_drop_by_tree_id(g, stacks[k], tree_ids)
         IN  drop_stacks(r.g, tree_ids, stacks, k + 1, moved \o r.moved)

\* The loop over nodes; last_protected is 0 for None.
drop_stack(g, tree_ids, nodes, i, moved, last_protected) ==
    IF i > Len(nodes)
    THEN [g |-> g, moved |-> moved, last_protected |-> last_protected]
    ELSE
        LET node == nodes[i]
            a == g[node].action
        IN  IF is_protected(a) \/ is_rebase(a)
            THEN LET r == drop_stacks(g, tree_ids, g[node].stacks, 1, moved)
                 IN  drop_stack(r.g, tree_ids, nodes, i + 1, r.moved, i)
            ELSE IF a = Pick /\ TreeInOnto(g, node, tree_ids)
            THEN drop_stack([g EXCEPT ![node].action = Delete,
                                      ![node].stacks = <<>>],
                            tree_ids, nodes, i + 1,
                            moved \o g[node].stacks, last_protected)
            ELSE \* a kept Pick, or a Delete: break
                 [g |-> g, moved |-> moved, last_protected |-> last_protected]

\* Mutant of stack_drop_by_tree_id: the moved stacks are not handed to the
\* last Protected or Rebase node.
stack_drop_by_tree_id_Forget(g, nodes, tree_ids) ==
    LET r == drop_stack(g, tree_ids, nodes, 1, <<>>, 0)
    IN  IF r.last_protected # 0
        THEN [g |-> r.g, moved |-> <<>>]
        ELSE [g |-> r.g, moved |-> r.moved]

stack_drop_by_tree_id(g, nodes, tree_ids) ==
    LET r == drop_stack(g, tree_ids, nodes, 1, <<>>, 0)
    IN  IF r.last_protected # 0
        THEN LET p == nodes[r.last_protected]
             IN  [g |-> [r.g EXCEPT ![p].stacks = @ \o r.moved], moved |-> <<>>]
        ELSE [g |-> r.g, moved |-> r.moved]

drop_by_tree_id(g, tree_ids) ==
    LET a == g[Root].action
    IN  IF is_protected(a) \/ is_rebase(a)
        THEN LET r == drop_stacks(g, tree_ids, g[Root].stacks, 1, <<>>)
             IN  [r.g EXCEPT ![Root].stacks = @ \o r.moved]
        ELSE g

\* ------------------------------------------------------------- delinearize
RECURSIVE delinearize_internal(_, _)
RECURSIVE delinearize_stacks(_, _, _)
RECURSIVE delinearize_nodes(_, _, _)
RECURSIVE delinearize_split(_, _, _, _)
RECURSIVE Splits(_, _, _)

\* Delinearize the stacks of node n one by one, storing each back.
delinearize_stacks(g, n, k) ==
    IF k > Len(g[n].stacks) THEN g
    ELSE LET r == delinearize_internal(g, g[n].stacks[k])
         IN  delinearize_stacks([r.g EXCEPT ![n].stacks[k] = r.nodes], n, k + 1)

\* for node in nodes.iter_mut(): for stack in node.stacks.iter_mut()
delinearize_nodes(g, nodes, i) ==
    IF i > Len(nodes) THEN g
    ELSE delinearize_nodes(delinearize_stacks(g, nodes[i], 1), nodes, i + 1)

\* Mutant of HasBranches: a single branch does not count.
HasBranches_Many(g, n) == Len(g[n].branches) > 1

\* .filter(|(_, n)| !n.branches.is_empty())
HasBranches(g, n) == g[n].branches # <<>>

\* splits: the number of nodes up to and including each node that carries
\* branches, the largest first (.rev()).
Splits(g, nodes, i) ==
    IF i = 0 THEN <<>>
    ELSE IF HasBranches(g, nodes[i])
         THEN <<i>> \o Splits(g, nodes, i - 1)
         ELSE Splits(g, nodes, i - 1)

\* Mutant of delinearize_split: the tail is put before the stacks the node
\* has.
RECURSIVE delinearize_split_Prepend(_, _, _, _)
delinearize_split_Prepend(g, nodes, splits, j) ==
    IF j > Len(splits) THEN [g |-> g, nodes |-> nodes]
    ELSE LET split == splits[j]
         IN  IF split = Len(nodes)
             THEN delinearize_split_Prepend(g, nodes, splits, j + 1)
             ELSE LET stack == SubSeq(nodes, split + 1, Len(nodes))
                      kept == SubSeq(nodes, 1, split)
                      lastn == kept[Len(kept)]
                  IN  delinearize_split_Prepend(
                          [g EXCEPT ![lastn].stacks = <<stack>> \o @],
                          kept, splits, j + 1)

\* for split in splits { if split == nodes.len() continue; split_off; push }
delinearize_split(g, nodes, splits, j) ==
    IF j > Len(splits) THEN [g |-> g, nodes |-> nodes]
    ELSE LET split == splits[j]
         IN  IF split = Len(nodes)
             THEN delinearize_split(g, nodes, splits, j + 1)
             ELSE LET stack == SubSeq(nodes, split + 1, Len(nodes))
                      kept == SubSeq(nodes, 1, split)
                      lastn == kept[Len(kept)]
                  IN  delinearize_split(
                          [g EXCEPT ![lastn].stacks = Append(@, stack)],
                          kept, splits, j + 1)

delinearize_internal(g, nodes) ==
    LET g1 == delinearize_nodes(g, nodes, 1)
    IN  delinearize_split(g1, nodes, Splits(g1, nodes, Len(nodes)), 1)

delinearize(g) == delinearize_stacks(g, Root, 1)

\* ---------------------------------------------------------------- to_script
Cmd(op, arg) == [op |-> op, arg |-> arg]
Script(commands, dependents) == [commands |-> commands, dependents |-> dependents]

\* Mutant of BranchCmds: the first branch only.
BranchCmds_First(op, branches, j) ==
    IF j > Len(branches) \/ j > 1 THEN <<>> ELSE <<Cmd(op, branches[j])>>

\* for branch in node.branches.iter(): push op(branch.name)
RECURSIVE BranchCmds(_, _, _)
BranchCmds(op, branches, j) ==
    IF j > Len(branches) THEN <<>>
    ELSE <<Cmd(op, branches[j])>> \o BranchCmds(op, branches, j + 1)

RECURSIVE to_script_internal(_, _, _)
RECURSIVE script_nodes(_, _, _, _)
RECURSIVE script_stacks(_, _, _, _, _)

\* for stack in node.stacks.iter(): dependents.extend(to_script_internal(..)),
\* with RegisterMark(mark) pushed before each stack when each_mark is set.
script_stacks(g, stacks, k, mark, each_mark) ==
    IF k > Len(stacks) THEN [commands |-> <<>>, dependents |-> <<>>, panic |-> FALSE]
    ELSE LET r == to_script_internal(g, stacks[k], mark)
             rest == script_stacks(g, stacks, k + 1, mark, each_mark)
         IN  [commands |-> (IF each_mark THEN <<Cmd("RegisterMark", mark)>> ELSE <<>>)
                               \o rest.commands,
              dependents |-> (IF r.some THEN <<r.script>> ELSE <<>>) \o rest.dependents,
              panic |-> r.panic \/ rest.panic]

\* Mutant of MatchArm: a Delete node is handled by the Pick arm.
MatchArm_DeleteAsPick(a) == IF a.tag = "Delete" THEN "Pick" ELSE a.tag

\* Mutant of MatchArm: a Protected node is handled by the Pick arm.
MatchArm_ProtectedAsPick(a) == IF a.tag = "Protected" THEN "Pick" ELSE a.tag

\* match node.action: the arm that handles the node.
MatchArm(a) == a.tag

\* Mutant of PickRegistersMark: the mark of a Pick node is never registered.
PickRegistersMark_Never(g, node) == FALSE

\* if !node.stacks.is_empty(): a Pick node registers its mark
PickRegistersMark(g, node) == g[node].stacks # <<>>

\* What one node of a stack adds to the script's commands and dependents;
\* panic records a failed assert!(node.stacks.is_empty()).
script_node(g, node) ==
    LET a == g[node].action
    IN  IF MatchArm(a) = "Pick" THEN
            LET r == script_stacks(g, g[node].stacks, 1, node, FALSE)
            IN  [commands |-> <<Cmd("CherryPick", node)>>
                     \o BranchCmds("CreateBranch", g[node].branches, 1)
                     \o (IF PickRegistersMark(g, node)
                         THEN <<Cmd("RegisterMark", node)>> ELSE <<>>),
                 dependents |-> r.dependents, panic |-> r.panic]
        ELSE IF MatchArm(a) = "Protected" THEN
            script_stacks(g, g[node].stacks, 1, node, TRUE)
        ELSE IF MatchArm(a) = "Rebase" THEN
            LET r == script_stacks(g, g[node].stacks, 1, a.base, FALSE)
            IN  [commands |-> <<Cmd("SwitchCommit", a.base),
                                Cmd("RegisterMark", a.base)>>,
                 dependents |-> r.dependents, panic |-> r.panic]
        ELSE
            [commands |-> BranchCmds("DeleteBranch", g[node].branches, 1),
             dependents |-> <<>>, panic |-> g[node].stacks # <<>>]

\* for node in nodes
script_nodes(g, nodes, i, acc) ==
    IF i > Len(nodes) THEN acc
    ELSE LET add == script_node(g, nodes[i])
         IN  script_nodes(g, nodes, i + 1,
                 [commands |-> acc.commands \o add.commands,
                  dependents |-> acc.dependents \o add.dependents,
                  panic |-> acc.panic \/ add.panic])

\* Option<Script>: some is FALSE for None.
to_script_internal(g, nodes, base_mark) ==
    LET r == script_nodes(g, nodes, 1,
                 [commands |-> <<>>, dependents |-> <<>>, panic |-> FALSE])
        commands == IF r.commands # <<>>
                    THEN <<Cmd("SwitchMark", base_mark)>> \o r.commands
                    ELSE r.commands
    IN  [some |-> ~(commands = <<>> /\ r.dependents = <<>>),
         script |-> Script(commands, r.dependents),
         panic |-> r.panic]

to_script(g) ==
    LET a == g[Root].action
    IN  IF a = Pick \/ a = Protected THEN
            LET r == script_stacks(g, g[Root].stacks, 1, Root, FALSE)
            IN  [script |-> Script(<<Cmd("SwitchCommit", Root),
                                     Cmd("RegisterMark", Root)>>, r.dependents),
                 panic |-> r.panic]
        ELSE IF is_rebase(a) THEN
            LET r == script_stacks(g, g[Root].stacks, 1, a.base, FALSE)
            IN  [script |-> Script(<<Cmd("SwitchCommit", a.base),
                                     Cmd("RegisterMark", a.base)>>, r.dependents),
                 panic |-> r.panic]
        ELSE
            [script |-> Script(BranchCmds("DeleteBranch", g[Root].branches, 1), <<>>),
             panic |-> g[Root].stacks # <<>>]

\* ---------------------------------------------------------------- spec
\* What each node carries: no branch, one work branch, two work branches,
\* or one protected branch.
NodeKinds == {"none", "work", "two", "protected"}
BranchCount(kind) == IF kind = "none" THEN 0 ELSE IF kind = "two" THEN 2 ELSE 1

NoScript == Script(<<>>, <<>>)

Passes == {"protect", "rebase", "pushable", "drop", "delinearize"}

\* The passes in the order the callers apply them.
PassOrder(p) ==
    CASE p = "init" -> 0
      [] p = "protect" -> 1
      [] p = "rebase" -> 2
      [] p = "pushable" -> 3
      [] p = "drop" -> 4
      [] p = "delinearize" -> 5
      [] OTHER -> 6

\* protect_branches runs first; after it a pass may follow any earlier pass.
MayApply(p) == last \in Passes /\ PassOrder(last) < PassOrder(p)
\* A pass may be applied a second time right after itself.
MayRepeat(p) == last = p /\ ~again

\* The protected tips: the commits of the graph that carry a protected
\* branch, or, when there is none, a tip outside the graph that descends
\* from the root (ExtOid), one that does not (OtherOid), or none at all.
Init ==
    /\ \E n \in 1..MaxNodes :
         \E sh \in Shapes(n) :
           \E kind \in [0..(n - 1) -> NodeKinds] :
             /\ graph = GraphOf(sh, n, [p \in 0..(n - 1) |-> BranchCount(kind[p])])
             /\ \/ protected_oids = {p \in 0..(n - 1) : kind[p] = "protected"}
                \/ /\ \A p \in 0..(n - 1) : kind[p] # "protected"
                   /\ protected_oids \in {{ExtOid}, {OtherOid}}
    /\ last = "init"
    /\ again = FALSE
    /\ changed = FALSE
    /\ new_base = NoOid
    /\ onto = {}
    /\ frozen = {}
    /\ script = NoScript
    /\ AmendIdle
    /\ ConfigIdle

\* One application of pass p, with new base nb and tree ids t, that took
\* graph to g.  new_base and onto are the arguments of the pass applied
\* last, and are forgotten with the next one.
Applied(p, g, nb, t) ==
    /\ graph' = g
    /\ changed' = (g # graph)
    /\ again' = (last = p)
    /\ last' = p
    /\ new_base' = nb
    /\ onto' = t

Protect ==
    /\ last = "init" \/ MayRepeat("protect")
    /\ Applied("protect", protect_branches(graph, protected_oids), NoOid, {})
    /\ frozen' = {n \in Nodes(graph') : is_protected(graph'[n].action)}
    /\ UNCHANGED <<protected_oids, script, avars, cvars>>

\* rebase_branches(root, nb): nb is a commit of the graph or one outside it;
\* applied again, it gets the same nb.
RebaseBranches ==
    /\ MayApply("rebase") \/ MayRepeat("rebase")
    /\ \E nb \in IF last = "rebase" THEN {new_base}
                 ELSE Nodes(graph) \cup {ExtOid} :
         Applied("rebase", rebase_branches(graph, nb), nb, {})
    /\ UNCHANGED <<protected_oids, frozen, script, avars, cvars>>

Pushable ==
    /\ MayApply("pushable") \/ MayRepeat("pushable")
    /\ LET r == pushable(graph)
       IN  IF r.panic
           THEN last' = "panic" /\ UNCHANGED <<graph, again, changed, new_base, onto>>
           ELSE Applied("pushable", r.g, NoOid, {})
    /\ UNCHANGED <<protected_oids, frozen, script, avars, cvars>>

\* drop_by_tree_id(root, onto): onto is read for its tree ids, and these are
\* compared with the tree ids of Pick nodes of the stacks only; applied
\* again, it gets the same onto.
DropByTreeId ==
    /\ MayApply("drop") \/ MayRepeat("drop")
    /\ \E t \in IF last = "drop" THEN {onto}
                ELSE SUBSET {graph[n].tree_id :
                                n \in {m \in Nodes(graph) \ {Root} : graph[m].action = Pick}} :
         Applied("drop", drop_by_tree_id(graph, t), NoOid, t)
    /\ UNCHANGED <<protected_oids, frozen, script, avars, cvars>>

Delinearize ==
    /\ MayApply("delinearize") \/ MayRepeat("delinearize")
    /\ Applied("delinearize", delinearize(graph), NoOid, {})
    /\ UNCHANGED <<protected_oids, frozen, script, avars, cvars>>

\* to_script reads the graph; a failed assert! ends the program.
ToScript ==
    /\ last \in Passes
    /\ LET r == to_script(graph)
       IN  IF r.panic
           THEN last' = "panic" /\ script' = script
           ELSE last' = "script" /\ script' = r.script
    /\ again' = FALSE
    /\ changed' = FALSE
    /\ new_base' = NoOid
    /\ onto' = {}
    /\ UNCHANGED <<graph, protected_oids, frozen, avars, cvars>>

Next ==
    \/ Protect
    \/ RebaseBranches
    \/ Pushable
    \/ DropByTreeId
    \/ Delinearize
    \/ ToScript

Spec == Init /\ [][Next]_vars


\* ------------------------------------------------------------ the executor
\* The commands of a script tree in the order the executor runs them: a
\* script's commands, then its dependents in order, each in the same way.
RECURSIVE Preorder(_)
RECURSIVE PreorderAll(_, _)
Preorder(s) == s.commands \o PreorderAll(s.dependents, 1)
PreorderAll(deps, k) ==
    IF k > Len(deps) THEN <<>> ELSE Preorder(deps[k]) \o PreorderAll(deps, k + 1)

\* The commit a cherry-pick of commit c creates.
Replayed(c) == 0 - (c + 2)

\* The executor's state after one command: SwitchCommit(o) sets HEAD to o,
\* RegisterMark(m) records HEAD under m, SwitchMark(m) sets HEAD to the
\* value recorded under m, CherryPick(c) replays c on HEAD and moves HEAD to
\* the replay.  marks is a set of <<mark, commit>> pairs.
ExecStep(st, cmd) ==
    CASE cmd.op = "SwitchCommit" -> [st EXCEPT !.head = cmd.arg]
      [] cmd.op = "RegisterMark" ->
            [st EXCEPT !.marks = {p \in @ : p[1] # cmd.arg} \cup {<<cmd.arg, st.head>>}]
      [] cmd.op = "SwitchMark" ->
            IF \E p \in st.marks : p[1] = cmd.arg
            THEN [st EXCEPT !.head = (CHOOSE p \in st.marks : p[1] = cmd.arg)[2]]
            ELSE st
      [] cmd.op = "CherryPick" -> [st EXCEPT !.head = Replayed(cmd.arg)]
      [] OTHER -> st

\* The run of a command sequence: HEAD before each command.
RECURSIVE HeadsBefore(_, _, _)
HeadsBefore(cmds, i, st) ==
    IF i > Len(cmds) THEN <<>>
    ELSE <<st.head>> \o HeadsBefore(cmds, i + 1, ExecStep(st, cmds[i]))

Heads(cmds) == HeadsBefore(cmds, 1, [head |-> NoOid, marks |-> {}])

\* ------------------------------------------------------------ graph facts
NonRoot(g) == Nodes(g) \ {Root}
IsLastInStack(g, n) == LET s == StackOf(g, n) IN s[Len(s)] = n
\* The ends of the root-to-tip paths: the nodes without a child.
Tips(g) ==
    {n \in Nodes(g) : g[n].stacks = <<>> /\ (n = Root \/ IsLastInStack(g, n))}
Path(g, n) == Ancestors(g, n) \cup {n}
AllBranches(g, ns) == UNION {Range(g[n].branches) : n \in ns}
Count(cmds, op, arg) == Cardinality({i \in 1..Len(cmds) : cmds[i] = Cmd(op, arg)})
Ops(cmds, op) == {cmds[i].arg : i \in {j \in 1..Len(cmds) : cmds[j].op = op}}

\* ------------------------------------------------------------------ claims

\* C1: after protect_branches and any of the later passes, the script that
\* to_script returns holds no CherryPick of a commit that protect_branches
\* marked Protected, and no CreateBranch or DeleteBranch of a branch attached
\* to such a commit.
C1_ProtectedNeverRewritten ==
    last = "script" =>
        LET cmds == Preorder(script)
        IN  /\ Ops(cmds, "CherryPick") \cap frozen = {}
            /\ Ops(cmds, "CreateBranch") \cap AllBranches(graph, frozen) = {}
            /\ Ops(cmds, "DeleteBranch") \cap AllBranches(graph, frozen) = {}

\* A script with a cherry-pick and a branch creation, from a graph in which a
\* node of a stack is frozen and carries a branch.
C1_Witness ==
    /\ last = "script"
    /\ \E n \in frozen \ {Root} : graph[n].branches # <<>>
    /\ Ops(Preorder(script), "CherryPick") # {}
    /\ Ops(Preorder(script), "CreateBranch") # {}

\* The nearest ancestor of node n that is not deleted; the root is never
\* deleted by a pass.
RECURSIVE NearestKept(_, _)
NearestKept(g, n) ==
    IF n = Root \/ g[n].action # Delete THEN n ELSE NearestKept(g, Parent(g, n))

\* The commit that stands for node n once the script has run: the new base
\* of a Rebase node, the replay of a Pick node, the commit itself for the
\* root and for a Protected node.
Effective(g, n) ==
    IF is_rebase(g[n].action) THEN g[n].action.base
    ELSE IF g[n].action = Pick /\ n # Root THEN Replayed(n)
    ELSE n

\* C2: run by the executor, every CherryPick(c) of the script happens while
\* HEAD is the effective commit of c's nearest ancestor that is not deleted,
\* and every RegisterMark(p) of a Protected node p happens while HEAD is p.
C2_DependencyOrder ==
    last = "script" =>
        LET cmds == Preorder(script)
            heads == Heads(cmds)
        IN  \A i \in 1..Len(cmds) :
              /\ cmds[i].op = "CherryPick" =>
                    heads[i] = Effective(graph, NearestKept(graph, Parent(graph, cmds[i].arg)))
              /\ (/\ cmds[i].op = "RegisterMark"
                  /\ cmds[i].arg \in Nodes(graph)
                  /\ graph[cmds[i].arg].action = Protected) =>
                    heads[i] = cmds[i].arg

\* C3: every SwitchMark(m) of the script tree comes, in depth-first
\* preorder, after a RegisterMark(m) with the same m.
C3_MarkDiscipline ==
    last = "script" =>
        LET cmds == Preorder(script)
        IN  \A i \in 1..Len(cmds) :
              cmds[i].op = "SwitchMark" =>
                  \E j \in 1..(i - 1) : cmds[j] = Cmd("RegisterMark", cmds[i].arg)

\* A script that switches to the mark of a Pick node of a stack.
C3_Witness ==
    /\ last = "script"
    /\ \E n \in NonRoot(graph) :
         /\ graph[n].action = Pick
         /\ Count(Preorder(script), "SwitchMark", n) > 0

\* C4: after protect_branches every ancestor of a Protected node, the root
\* included, is Protected.
C4_AncestorsProtected ==
    last = "protect" =>
        \A n \in Nodes(graph) :
            graph[n].action = Protected =>
                \A a \in Ancestors(graph, n) : graph[a].action = Protected

\* protect_branches marked a node that carries no protected branch itself
\* and is not the root.
C4_Witness ==
    /\ last = "protect"
    /\ \E n \in NonRoot(graph) :
         /\ graph[n].action = Protected
         /\ n \notin protected_oids


RebaseCount(g, t) == Cardinality({n \in Path(g, t) : is_rebase(g[n].action)})

Canonical(g) == \A n \in NonRoot(g) : g[n].stacks # <<>> => IsLastInStack(g, n)

\* The frozen node of the path to t that is farthest from the root.
LastFrozen(g, t) ==
    CHOOSE n \in Path(g, t) \cap frozen : Path(g, t) \cap frozen \subseteq Path(g, n)

C6_NoPickTreeInOnto ==
    (last = "drop" /\ ~again) =>
        \A n \in Nodes(graph) :
            graph[n].action = Pick => graph[n].tree_id \notin onto

IsFrontier(a) == is_protected(a) \/ is_rebase(a)

\* drop_by_tree_id with tree ids t comes to node n of graph g: the root is
\* Protected or Rebase, the nodes before n in its stack are Protected,
\* Rebase, or Pick with a tree id of t, and the node that owns the stack is
\* the root or a Protected or Rebase node of which the same holds.
RECURSIVE DropReaches(_, _, _)
DropReaches(g, t, n) ==
    LET s == StackOf(g, n)
        i == IndexIn(s, n)
        o == Owner(g, n)
    IN  /\ \A j \in 1..(i - 1) :
              \/ IsFrontier(g[s[j]].action)
              \/ g[s[j]].action = Pick /\ g[s[j]].tree_id \in t
        /\ IF o = Root THEN IsFrontier(g[Root].action)
           ELSE IsFrontier(g[o].action) /\ DropReaches(g, t, o)

\* C6, amended: drop_by_tree_id marks Delete exactly the Pick nodes whose
\* tree id is in onto and that it comes to (see DropReaches); a Pick node
\* behind a kept Pick node or a Delete node of its stack, in a stack of a Pick
\* or Delete node, or under a root that is neither Protected nor Rebase,
\* keeps its action whatever its tree id.
C6_ReachedPicksDropped ==
    [][last' = "drop" =>
         \A n \in Nodes(graph) :
             graph'[n].action =
                 IF /\ n # Root
                    /\ graph[n].action = Pick
                    /\ graph[n].tree_id \in onto'
                    /\ DropReaches(graph, onto', n)
                 THEN Delete
                 ELSE graph[n].action]_vars

\* drop_by_tree_id deleted a node and left a Pick node whose tree id is in
\* onto.
C6_Witness ==
    /\ last = "drop" /\ ~again
    /\ \E n \in Nodes(graph) : graph[n].action = Delete
    /\ \E n \in Nodes(graph) : graph[n].action = Pick /\ graph[n].tree_id \in onto

\* C7: after delinearize no node but the last of its stack carries branches.
C7_NoInteriorBranches ==
    last = "delinearize" =>
        \A n \in NonRoot(graph) :
            graph[n].branches # <<>> => IsLastInStack(graph, n)

\* delinearize split a stack.
C7_Witness ==
    /\ last = "delinearize" /\ ~again /\ changed
    /\ \E n \in NonRoot(graph) : graph[n].branches # <<>> /\ graph[n].stacks # <<>>

\* Branch::protected: the branch that makes its commit a protected tip.
ProtectedBranchNames(g, po) ==
    {g[n].branches[1] : n \in {m \in po \cap Nodes(g) : g[m].branches # <<>>}}

NodesWith(g, a) == {n \in Nodes(g) : g[n].action = a}

\* C8 as stated: the script cherry-picks every Pick node once and nothing
\* else, creates every branch that is not protected once and nothing else,
\* and deletes every branch of a Delete node once and nothing else.
C8_CountsPreserved ==
    last = "script" =>
        LET cmds == Preorder(script)
        IN  /\ \A n \in Nodes(graph) \cup Ops(cmds, "CherryPick") :
                  Count(cmds, "CherryPick", n) =
                      IF n \in NodesWith(graph, Pick) THEN 1 ELSE 0
            /\ \A b \in AllBranches(graph, Nodes(graph)) \cup Ops(cmds, "CreateBranch") :
                  Count(cmds, "CreateBranch", b) =
                      IF b \in AllBranches(graph, Nodes(graph))
                                  \ ProtectedBranchNames(graph, protected_oids)
                      THEN 1 ELSE 0
            /\ \A b \in AllBranches(graph, Nodes(graph)) \cup Ops(cmds, "DeleteBranch") :
                  Count(cmds, "DeleteBranch", b) =
                      IF b \in AllBranches(graph, NodesWith(graph, Delete)) THEN 1 ELSE 0

\* C8, amended: the script cherry-picks every Pick node of a stack once and
\* nothing else (the root is never cherry-picked), creates every branch of
\* a Pick node of a stack once and nothing else (a branch of the root, of a
\* Protected, Rebase or Delete node is not created, protected or not), and
\* deletes every branch of a Delete node once and nothing else.
C8_CountsOfStackNodes ==
    last = "script" =>
        LET cmds == Preorder(script)
            picks == NodesWith(graph, Pick) \ {Root}
        IN  /\ \A n \in Nodes(graph) \cup Ops(cmds, "CherryPick") :
                  Count(cmds, "CherryPick", n) = IF n \in picks THEN 1 ELSE 0
            /\ \A b \in AllBranches(graph, Nodes(graph)) \cup Ops(cmds, "CreateBranch") :
                  Count(cmds, "CreateBranch", b) =
                      IF b \in AllBranches(graph, picks) THEN 1 ELSE 0
            /\ \A b \in AllBranches(graph, Nodes(graph)) \cup Ops(cmds, "DeleteBranch") :
                  Count(cmds, "DeleteBranch", b) =
                      IF b \in AllBranches(graph, NodesWith(graph, Delete)) THEN 1 ELSE 0

\* A script that cherry-picks, creates two branches of one node and deletes
\* a branch.
C8_Witness ==
    /\ last = "script"
    /\ Ops(Preorder(script), "CherryPick") # {}
    /\ Cardinality(Ops(Preorder(script), "CreateBranch")) = 2
    /\ Ops(Preorder(script), "DeleteBranch") # {}

\* C9: in every graph of the pipeline a Delete node has no stacks, so that
\* the assert!(node.stacks.is_empty()) of to_script never fails.
C9_DeleteHasNoStacks ==
    /\ \A n \in Nodes(graph) : graph[n].action = Delete => graph[n].stacks = <<>>
    /\ ~to_script(graph).panic

\* C10 as stated: a pass applied a second time in succession, with the same
\* arguments, leaves the graph as the first application left it.
C10_PassesIdempotent == [][again' => graph' = graph]_vars

\* C10, amended: protect_branches, pushable and delinearize applied a second
\* time in succession leave the graph as the first application left it;
\* rebase_branches and drop_by_tree_id do not.
C10_ThreePassesIdempotent ==
    [][(again' /\ last' \in {"protect", "pushable", "delinearize"})
          => graph' = graph]_vars

\* delinearize was applied twice to a graph with a stack it split.
C10_Witness ==
    /\ last = "delinearize" /\ again
    /\ \E n \in NonRoot(graph) : graph[n].branches # <<>> /\ graph[n].stacks # <<>>

\* ------------------------------------------------- pushable with its inputs
\* The graphs of Init with the inputs pushable reads: the commits of the
\* stacks with a WIP summary, and the branches that are at their push target.
\* Neither is read for a node that carries a protected branch.
InitPush ==
    /\ \E n \in 1..MaxNodes :
         \E sh \in Shapes(n) :
           \E kind \in [0..(n - 1) -> NodeKinds] :
             LET g0 == GraphOf(sh, n, [p \in 0..(n - 1) |-> BranchCount(kind[p])])
                 open == {p \in 1..(n - 1) : kind[p] # "protected"}
             IN  /\ \E w \in SUBSET open :
                       \E ps \in SUBSET AllBranches(g0, open) :
                         graph = [p \in 0..(n - 1) |->
                                    [g0[p] EXCEPT !.wip = (p \in w),
                                                  !.pushed = ps \cap Range(g0[p].branches)]]
                 /\ \/ protected_oids = {p \in 0..(n - 1) : kind[p] = "protected"}
                    \/ /\ \A p \in 0..(n - 1) : kind[p] # "protected"
                       /\ protected_oids \in {{ExtOid}, {OtherOid}}
    /\ last = "init"
    /\ again = FALSE
    /\ changed = FALSE
    /\ new_base = NoOid
    /\ onto = {}
    /\ frozen = {}
    /\ script = NoScript
    /\ AmendIdle
    /\ ConfigIdle

\* protect_branches, then rebase_branches or not, then pushable.
NextPush ==
    \/ last = "init" /\ Protect
    \/ last = "protect" /\ RebaseBranches
    \/ last \in {"protect", "rebase"} /\ Pushable

SpecPush == InitPush /\ [][NextPush]_vars

\* The nodes of the stack of n up to n, and before n.
UpTo(g, n) == LET s == StackOf(g, n) IN {s[j] : j \in 1..IndexIn(s, n)}
Before(g, n) == UpTo(g, n) \ {n}

\* C11 as stated: after pushable a node is pushable exactly when it carries
\* a branch and is not Protected, no node before it in its stack has a WIP
\* summary, and none of its branches is at its push target.
C11_PushableIff ==
    last = "pushable" =>
        \A n \in Nodes(graph) :
            graph[n].pushable <=>
                /\ graph[n].branches # <<>> /\ ~is_protected(graph[n].action)
                /\ n # Root => \A m \in Before(graph, n) : ~graph[m].wip
                /\ \A b \in Range(graph[n].branches) : b \notin graph[n].pushed

\* pushable comes to node n of a stack: the nodes before n in the stack are
\* Protected, Rebase or without a branch, and the stack hangs on the root,
\* which is Protected, Rebase or without a branch, or on a Protected or
\* Rebase node that pushable comes to.
RECURSIVE PushReaches(_, _)
PushReaches(g, n) ==
    LET o == Owner(g, n)
    IN  /\ \A m \in Before(g, n) : IsFrontier(g[m].action) \/ g[m].branches = <<>>
        /\ IF o = Root THEN IsFrontier(g[Root].action) \/ g[Root].branches = <<>>
           ELSE IsFrontier(g[o].action) /\ PushReaches(g, o)

\* The cause that keeps node n from being pushable: a WIP summary on n or on
\* a node before it, or a node before it that has stacks of its own; the
\* Protected and Rebase nodes of the stack do not count.
PushCause(g, n) ==
    \/ \E m \in UpTo(g, n) : ~IsFrontier(g[m].action) /\ g[m].wip
    \/ \E m \in Before(g, n) : ~IsFrontier(g[m].action) /\ g[m].stacks # <<>>

\* C11, amended: after pushable a node is pushable exactly when it is a node
\* of a stack that pushable comes to (so that it is the first node of its
\* stack to carry a branch, the Protected and Rebase nodes aside), it carries
\* a branch and is neither Protected nor Rebase, neither it nor a node
\* before it in the stack has a WIP summary, no node before it has stacks
\* of its own, and not all of its branches are at their push target.
C11_PushableOfFirstBranch ==
    last = "pushable" =>
        \A n \in Nodes(graph) :
            graph[n].pushable <=>
                /\ n # Root
                /\ graph[n].branches # <<>> /\ ~IsFrontier(graph[n].action)
                /\ PushReaches(graph, n)
                /\ ~PushCause(graph, n)
                /\ ~(Range(graph[n].branches) \subseteq graph[n].pushed)

\* pushable marked a node with one branch at its push target and one not,
\* and left a node alone for its own WIP summary.
C11_Witness ==
    /\ last = "pushable"
    /\ \E n \in NonRoot(graph) :
         graph[n].pushable /\ graph[n].pushed # {}
    /\ \E n \in NonRoot(graph) :
         /\ ~graph[n].pushable /\ graph[n].wip /\ graph[n].branches # <<>>
         /\ graph[n].pushed = {} /\ PushReaches(graph, n)
         /\ \A m \in Before(graph, n) : ~graph[m].wip /\ graph[m].stacks = <<>>

\* The nodes with a branch in the k-th stack of node x.
BranchBearing(g, x, k) == {y \in Range(g[x].stacks[k]) : g[y].branches # <<>>}

\* Two stacks of node x with a branch-bearing node each.
Divergent(g, x) ==
    {yz \in Nodes(g) \X Nodes(g) :
        \E k1, k2 \in 1..Len(g[x].stacks) :
            k1 # k2 /\ yz[1] \in BranchBearing(g, x, k1) /\ yz[2] \in BranchBearing(g, x, k2)}

NotWalkedBelow(g, x) ==
    /\ ~IsFrontier(g[x].action)
    /\ x = Root => g[Root].branches # <<>>

LinearGraph(g) ==
    /\ Len(g[Root].stacks) = 1
    /\ LET s == g[Root].stacks[1]
       IN  \A i \in 1..Len(s) :
             /\ g[s[i]].action = Pick
             /\ g[s[i]].stacks = <<>>
             /\ Len(g[s[i]].branches) = (IF i = Len(s) THEN 1 ELSE 0)

\* SwitchCommit(nb), RegisterMark(nb), SwitchMark(nb), a CherryPick of each
\* node of the stack in order, CreateBranch of the branch of the tip.
LinearScript(g, nb) ==
    LET s == g[Root].stacks[1]
    IN  <<Cmd("SwitchCommit", nb), Cmd("RegisterMark", nb), Cmd("SwitchMark", nb)>>
            \o [i \in 1..Len(s) |-> Cmd("CherryPick", s[i])]
            \o <<Cmd("CreateBranch", g[s[Len(s)]].branches[1])>>

\* C13 as stated: for a root with a single stack of Pick nodes and a branch
\* on the tip, rebase_branches(root, A') followed by to_script yields, in
\* depth-first order, SwitchCommit(A'), RegisterMark(A'), SwitchMark(A'), a
\* CherryPick of each node of the stack in order and CreateBranch of the
\* branch, whatever the action of the root.
C13_LinearRebase ==
    (last = "rebase" /\ ~again /\ LinearGraph(graph) /\ new_base \notin Nodes(graph)) =>
        Preorder(to_script(graph).script) = LinearScript(graph, new_base)

\* C13, amended: the same, for a root that protect_branches marked
\* Protected; a root that is Pick stays Pick, and the script starts from the
\* root itself.
C13_LinearRebaseOfProtectedRoot ==
    (/\ last = "rebase" /\ ~again /\ LinearGraph(graph)
     /\ new_base \notin Nodes(graph) /\ Root \in frozen) =>
        /\ Preorder(to_script(graph).script) = LinearScript(graph, new_base)
        /\ \A i \in 1..Len(Preorder(to_script(graph).script)) :
              Preorder(to_script(graph).script)[i].arg # Root

\* A Protected root with a stack of two nodes, rebased.
C13_Witness ==
    /\ last = "rebase" /\ ~again /\ LinearGraph(graph)
    /\ new_base \notin Nodes(graph) /\ Root \in frozen
    /\ Len(graph[Root].stacks[1]) = 2

\* The root has one stack of two Pick nodes B and C without stacks; the tree
\* id of B is in t and that of C is not.
LandedGraph(g, t) ==
    /\ Len(g[Root].stacks) = 1
    /\ LET s == g[Root].stacks[1]
       IN  /\ Len(s) = 2
           /\ \A i \in 1..2 : g[s[i]].action = Pick /\ g[s[i]].stacks = <<>>
           /\ g[s[1]].tree_id \in t
           /\ g[s[2]].tree_id \notin t

\* The mark the stacks of the root start from.
RootMark(g) == IF is_rebase(g[Root].action) THEN g[Root].action.base ELSE Root

\* CherryPick(c) comes after SwitchMark(mark) with nothing but DeleteBranch
\* commands between them.
PickedOnMark(cmds, c, mark) ==
    \E i, j \in 1..Len(cmds) :
        /\ i < j
        /\ cmds[i] = Cmd("SwitchMark", mark)
        /\ cmds[j] = Cmd("CherryPick", c)
        /\ \A k \in (i + 1)..(j - 1) : cmds[k].op = "DeleteBranch"

\* What C14 says of root A with stack B, C.
LandedOutcome(g, g2, cmds) ==
    LET s == g[Root].stacks[1]
    IN  /\ g2[s[1]].action = Delete
        /\ g2[s[2]].action = Pick
        /\ Count(cmds, "CherryPick", s[1]) = 0
        /\ Count(cmds, "CherryPick", s[2]) = 1
        /\ PickedOnMark(cmds, s[2], RootMark(g2))

\* C14 as stated: for root A with stack B, C, tree_of(B) in onto and
\* tree_of(C) not, drop_by_tree_id marks B Delete and leaves C Pick, and the
\* script has no CherryPick(B) and one CherryPick(C), on A's mark; and in
\* every graph a node of a stack whose tree id is in onto is never
\* cherry-picked, while each of its descendants whose tree id is not in onto
\* is cherry-picked.
C14_LandedDrop ==
    [][last' = "drop" =>
         LET cmds == Preorder(to_script(graph').script)
         IN  /\ LandedGraph(graph, onto') => LandedOutcome(graph, graph', cmds)
             /\ \A n \in NonRoot(graph) :
                   /\ graph[n].tree_id \in onto' => Count(cmds, "CherryPick", n) = 0
                   /\ (/\ graph[n].tree_id \notin onto'
                       /\ \E a \in Ancestors(graph, n) \ {Root} :
                             graph[a].tree_id \in onto')
                         => Count(cmds, "CherryPick", n) = 1]_vars

\* C14, amended: the same for a root that is Protected or Rebase; and in
\* every graph a Pick node whose tree id is in onto and that
\* drop_by_tree_id comes to is never cherry-picked, while every other Pick
\* node of a stack is cherry-picked once.
C14_LandedDropUnderProtectedRoot ==
    [][last' = "drop" =>
         LET cmds == Preorder(to_script(graph').script)
         IN  /\ (LandedGraph(graph, onto') /\ IsFrontier(graph[Root].action))
                   => LandedOutcome(graph, graph', cmds)
             /\ \A n \in NonRoot(graph) :
                   graph[n].action = Pick =>
                       Count(cmds, "CherryPick", n) =
                           IF graph[n].tree_id \in onto' /\ DropReaches(graph, onto', n)
                           THEN 0 ELSE 1]_vars

\* Root A, Protected or Rebase, with stack B, C after drop_by_tree_id: B is
\* Delete, C is Pick and its tree id is not in onto.
C14_Witness ==
    /\ last = "drop" /\ ~again /\ changed
    /\ IsFrontier(graph[Root].action)
    /\ Len(graph[Root].stacks) = 1
    /\ Len(graph[Root].stacks[1]) = 2
    /\ graph[graph[Root].stacks[1][1]].action = Delete
    /\ graph[graph[Root].stacks[1][2]].action = Pick
    /\ graph[graph[Root].stacks[1][2]].tree_id \notin onto

\* Every node but the root is Pick.
OthersPick(g) == \A n \in NonRoot(g) : g[n].action = Pick

\* C15 as stated: when the root carries a protected branch and no node of
\* a stack does, protect_branches marks the root Protected and leaves the
\* other nodes Pick; rebase_branches(root, new_base) then makes the root
\* Rebase(new_base) and changes nothing else, and the script begins with
\* SwitchCommit(new_base).
C15_ProtectedHead ==
    protected_oids = {Root} =>
        /\ (last = "protect" /\ ~again) =>
              graph[Root].action = Protected /\ OthersPick(graph)
        /\ (last = "rebase" /\ ~again) =>
              /\ graph[Root].action = Rebase(new_base)
              /\ OthersPick(graph)
              /\ Preorder(to_script(graph).script)[1] = Cmd("SwitchCommit", new_base)

\* C15, amended: the same for a new_base that is no commit of the graph;
\* with new_base the root's commit, rebase_branches leaves the root
\* Protected and the script begins with SwitchCommit of the root.  In every
\* case the other nodes stay Pick.
C15_ProtectedHeadNewBase ==
    protected_oids = {Root} =>
        /\ (last = "protect" /\ ~again) =>
              graph[Root].action = Protected /\ OthersPick(graph)
        /\ (last = "rebase" /\ ~again) =>
              /\ OthersPick(graph)
              /\ new_base \notin Nodes(graph) =>
                    /\ graph[Root].action = Rebase(new_base)
                    /\ Preorder(to_script(graph).script)[1] = Cmd("SwitchCommit", new_base)
              /\ new_base = Root =>
                    /\ graph[Root].action = Protected
                    /\ Preorder(to_script(graph).script)[1] = Cmd("SwitchCommit", Root)

\* A root with a protected branch and a stack of two nodes, rebased on a
\* new commit.
C15_Witness ==
    /\ protected_oids = {Root}
    /\ last = "rebase" /\ ~again /\ changed
    /\ new_base \notin Nodes(graph)
    /\ Cardinality(NonRoot(graph)) = 2

\* C16: rebase_branches(root, new_base) leaves every node as it is or turns
\* its action from Protected into Rebase(new_base), and changes nothing
\* else of it: no Pick or Delete node, no branch list and no stack changes;
\* and when no node is Protected it leaves the whole graph as it is.
C16_RebaseFrame ==
    [][last' = "rebase" =>
         /\ Nodes(graph') = Nodes(graph)
         /\ \A n \in Nodes(graph) :
               \/ graph'[n] = graph[n]
               \/ /\ graph[n].action = Protected
                  /\ graph'[n] = [graph[n] EXCEPT !.action = Rebase(new_base')]
         /\ (\A n \in Nodes(graph) : graph[n].action # Protected) => graph' = graph]_vars

\* rebase_branches was applied to a graph of three nodes none of which is
\* Protected.
C16_Witness ==
    /\ last = "rebase" /\ ~again /\ ~changed
    /\ frozen = {}
    /\ Cardinality(Nodes(graph)) = 3
    /\ new_base = ExtOid

\* ------------------------------------------------------- AmendArgs::exec
\* Bound of the model: the number of scripts to_scripts returns.
MaxScripts == 2

\* The codes to_sysexits derives from an io error.
SysexitsOfIo == {65, 66, 69, 72, 73, 74, 76, 77}

\* AmendArgs as clap parses them: --interactive conflicts with --all.
AmendArgs ==
    {a \in [all : BOOLEAN, interactive : BOOLEAN, edit : BOOLEAN,
            message : BOOLEAN, dry_run : BOOLEAN] : ~(a.all /\ a.interactive)}

\* return Err(code ..) and the ? operator.
Exit(code, err) == pc' = "exit" /\ exit_code' = code /\ error' = err
Goto(l) == pc' = l /\ UNCHANGED <<exit_code, error>>
\* A fallible call: on success exec goes on with l.
Try(l, code, err) == \E ok \in BOOLEAN : IF ok THEN Goto(l) ELSE Exit(code, err)
Did(e) == effects' = Append(effects, e)

\* current_dir() and Repository::discover(&cwd)
Discover ==
    /\ pc = "discover"
    /\ Try("config", USAGE_ERR, "not_a_repo")
    /\ UNCHANGED <<args, effects, executor, scripts, ran, success, closed, gvars, cvars>>

\* RepoConfig::from_all and ProtectedBranches::new
LoadConfig ==
    /\ pc = "config"
    /\ \/ Goto("branches")
       \/ Exit(CONFIG_ERR, "config")
       \/ Exit(CONFIG_ERR, "protected_branches")
    /\ UNCHANGED <<args, effects, executor, scripts, ran, success, closed, gvars, cvars>>

\* BranchSet::from_repo
LoadBranches ==
    /\ pc = "branches"
    /\ Try("base", FAILURE, "branches")
    /\ UNCHANGED <<args, effects, executor, scripts, ran, success, closed, gvars, cvars>>

\* resolve_implicit_base and repo.merge_base(base.id, head_id)
ResolveBase ==
    /\ pc = "base"
    /\ Try("graph", USAGE_ERR, "no_base")
    /\ UNCHANGED <<args, effects, executor, scripts, ran, success, closed, gvars, cvars>>

\* Graph::from_branches, protect_branches, mark_fixup, mark_wip
BuildGraph ==
    /\ pc = "graph"
    /\ Try("head", FAILURE, "graph")
    /\ UNCHANGED <<args, effects, executor, scripts, ran, success, closed, gvars, cvars>>

\* match action of the head commit
CheckHead ==
    /\ pc = "head"
    /\ \E action \in {"Pick", "Fixup", "Protected"} :
         CASE action = "Pick" -> Goto("index")
           [] action = "Fixup" -> Exit(FAILURE, "fixup_head")
           [] action = "Protected" -> Exit(FAILURE, "protected_head")
    /\ UNCHANGED <<args, effects, executor, scripts, ran, success, closed, gvars, cvars>>

\* repo.raw().index()
OpenIndex ==
    /\ pc = "index"
    /\ Try("stage", FAILURE, "index")
    /\ UNCHANGED <<args, effects, executor, scripts, ran, success, closed, gvars, cvars>>

\* if self.all { update_all } else if self.interactive { todo!() } else if
\* !self.dry_run { stash_push }.  The callback of update_all skips every
\* path under dry_run and confirms it otherwise; paths says whether there is
\* a path to add.
Stage ==
    /\ pc = "stage"
    /\ IF args.all THEN
           \E paths, ok \in BOOLEAN :
               /\ IF paths
                  THEN Did(IF args.dry_run THEN "index_skip" ELSE "index_add")
                  ELSE UNCHANGED effects
               /\ IF ok THEN Goto("snapshot") ELSE Exit(FAILURE, "update_all")
       ELSE IF args.interactive THEN
           /\ pc' = "panic" /\ exit_code' = PANIC /\ error' = "todo"
           /\ UNCHANGED effects
       ELSE IF ~args.dry_run THEN Did("stash_push") /\ Goto("snapshot")
       ELSE UNCHANGED effects /\ Goto("snapshot")
    /\ UNCHANGED <<args, executor, scripts, ran, success, closed, gvars, cvars>>

\* Repository::discover(&cwd) again, Snapshot::from_repo, and
\* snapshots.push(snapshot) unless dry_run.
Snapshot ==
    /\ pc = "snapshot"
    /\ \/ Exit(USAGE_ERR, "not_a_repo") /\ UNCHANGED effects
       \/ Exit(FAILURE, "snapshot") /\ UNCHANGED effects
       \/ /\ ~args.dry_run
          /\ \E code \in SysexitsOfIo : Exit(code, "snapshot_push")
          /\ UNCHANGED effects
       \/ /\ Goto("commit")
          /\ IF ~args.dry_run THEN Did("snapshot_push") ELSE UNCHANGED effects
    /\ UNCHANGED <<args, executor, scripts, ran, success, closed, gvars, cvars>>

\* if !self.dry_run: write_tree, find_tree, commit the fixup and insert it
\* into the graph; then fixup(&mut graph, .., Squash).
CommitFixup ==
    /\ pc = "commit"
    /\ IF args.dry_run THEN Goto("message") /\ UNCHANGED effects
       ELSE \/ Exit(FAILURE, "write_tree") /\ UNCHANGED effects
            \/ Exit(FAILURE, "find_tree") /\ Did("write_tree")
            \/ Exit(FAILURE, "commit") /\ Did("write_tree")
            \/ /\ Goto("message")
               /\ effects' = effects \o <<"write_tree", "commit", "graph_insert">>
    /\ UNCHANGED <<args, executor, scripts, ran, success, closed, gvars, cvars>>

\* The new message: --message, or the editor under --edit, or none; then
\* reword_commit when there is one.
Message ==
    /\ pc = "message"
    /\ IF args.message THEN Try("scripts", FAILURE, "reword")
       ELSE IF args.edit THEN
           \/ Exit(FAILURE, "editor")
           \/ Exit(FAILURE, "empty_message")
           \/ Try("scripts", FAILURE, "reword")
       ELSE Goto("scripts")
    /\ UNCHANGED <<args, effects, executor, scripts, ran, success, closed, gvars, cvars>>

\* Mutant of ExecutorMode: the executor always runs for real.
ExecutorMode_Real(a) == "real"

\* Executor::new(self.dry_run)
ExecutorMode(a) == IF a.dry_run THEN "dry" ELSE "real"

\* success = true; scripts = to_scripts(..); executor = Executor::new(dry_run)
ToScripts ==
    /\ pc = "scripts"
    /\ scripts' \in 0..MaxScripts
    /\ executor' = ExecutorMode(args)
    /\ success' = TRUE
    /\ ran' = 0
    /\ Goto("run")
    /\ UNCHANGED <<args, effects, closed, gvars, cvars>>

\* Mutant of RunFails: the loop ends with the first failure.
RunFails_Break(failed) == IF failed THEN "close" ELSE "run"

\* for script in scripts: a failure does not end the loop.
RunFails(failed) == "run"

\* One turn of the loop: executor.run(&mut repo, &script); every result it
\* returns is a failure and clears success.
RunScript ==
    /\ pc = "run"
    /\ ran < scripts
    /\ \E failed \in BOOLEAN :
         /\ success' = (success /\ ~failed)
         /\ pc' = RunFails(failed)
         /\ Did(IF failed THEN "run_failed" ELSE "run_ok")
    /\ ran' = ran + 1
    /\ UNCHANGED <<args, exit_code, error, executor, scripts, closed, gvars, cvars>>

\* The loop is over.
LoopDone == (pc = "run" /\ ran = scripts) \/ pc = "close"

\* executor.close(..).with_code(FAILURE)?
Close ==
    /\ LoopDone
    /\ closed' = closed + 1
    /\ Did("close")
    /\ Try("finish", FAILURE, "close")
    /\ UNCHANGED <<args, executor, scripts, ran, success, gvars, cvars>>

\* Mutant of FinalCode: exec ends with Ok(()) whatever success says.
FinalCode_Ok(ok) == SUCCESS

\* if success { Ok(()) } else { Err(Code::FAILURE.as_exit()) }
FinalCode(ok) == IF ok THEN SUCCESS ELSE FAILURE

\* stash_pop and the result of exec
Finish ==
    /\ pc = "finish"
    /\ Did("stash_pop")
    /\ pc' = "exit"
    /\ exit_code' = FinalCode(success)
    /\ error' = IF success THEN "none" ELSE "run"
    /\ UNCHANGED <<args, executor, scripts, ran, success, closed, gvars, cvars>>

\* exec is called with some arguments; the passes are not part of this
\* specification.
InitAmend ==
    /\ graph = [p \in {Root} |-> NewNode(Root, 0, <<>>)]
    /\ protected_oids = {}
    /\ last = "init"
    /\ again = FALSE
    /\ changed = FALSE
    /\ new_base = NoOid
    /\ onto = {}
    /\ frozen = {}
    /\ script = NoScript
    /\ pc = "discover"
    /\ args \in AmendArgs
    /\ exit_code = NoExit
    /\ error = "none"
    /\ effects = <<>>
    /\ executor = "none"
    /\ scripts = 0
    /\ ran = 0
    /\ success = TRUE
    /\ closed = 0
    /\ ConfigIdle

NextAmend ==
    \/ Discover
    \/ LoadConfig
    \/ LoadBranches
    \/ ResolveBase
    \/ BuildGraph
    \/ CheckHead
    \/ OpenIndex
    \/ Stage
    \/ Snapshot
    \/ CommitFixup
    \/ Message
    \/ ToScripts
    \/ RunScript
    \/ Close
    \/ Finish

SpecAmend == InitAmend /\ [][NextAmend]_vars

\* What exec did, as a set.
Done == Range(effects)
Runs == {"run_ok", "run_failed"}

\* C17: every script to_scripts returned is run, whether an earlier one
\* failed or not; executor.close is called once, after the last run, on
\* every way out of exec behind the loop; and when close succeeds exec ends
\* with a failure code exactly when a run reported a failure.
C17_AllScriptsRunThenClose ==
    /\ closed <= 1
    /\ closed = 1 => ran = scripts
    /\ \A i, j \in 1..Len(effects) :
          (i < j /\ effects[i] = "close") => effects[j] \notin Runs
    /\ (pc = "exit" /\ executor # "none") => closed = 1
    /\ (pc = "exit" /\ closed = 1 /\ error # "close") =>
          (exit_code # SUCCESS <=> "run_failed" \in Done)

\* exec ended after two scripts of which the first failed and the second
\* was run all the same.
C17_Witness ==
    /\ pc = "exit" /\ closed = 1 /\ exit_code = FAILURE
    /\ \E i, j \in 1..Len(effects) :
          i < j /\ effects[i] = "run_failed" /\ effects[j] = "run_ok"

\* What exec changes outside its own memory before the executor runs.
Mutations ==
    {"index_add", "stash_push", "snapshot_push", "write_tree", "commit", "graph_insert"}

\* C18: under dry_run exec never pushes a stash or a snapshot, adds no path
\* to the index, writes no tree, creates no fixup commit and inserts none
\* into the graph, and the executor it constructs is in dry-run mode.
C18_DryRunMutatesNothing ==
    args.dry_run =>
        /\ Done \cap Mutations = {}
        /\ executor \in {"none", "dry"}

\* A dry run with --all that skipped the paths and ran two scripts.
C18_Witness ==
    /\ args.dry_run /\ args.all
    /\ pc = "exit" /\ exit_code = SUCCESS
    /\ "index_skip" \in Done
    /\ ran = 2

\* C19: an exit with the usage code or the configuration code, and the
\* rejection of a Fixup or Protected head commit, comes before any mutation
\* and before any run of the executor.
C19_UsageConfigBeforeMutation ==
    (/\ pc = "exit"
     /\ \/ exit_code \in {USAGE_ERR, CONFIG_ERR}
        \/ error \in {"fixup_head", "protected_head"}) =>
        Done \cap (Mutations \cup Runs) = {}

UsageErrors == {"not_a_repo", "no_base", "fixup_head", "protected_head"}
ConfigErrors == {"config", "protected_branches"}

\* C20 as stated: a usage error (cwd not a repository, no base found,
\* amending a Fixup commit, amending a Protected commit) exits with 64, a
\* configuration error with 78, every other failure with 1.
C20_ExitCodes ==
    (pc = "exit" /\ error # "none") =>
        exit_code = IF error \in UsageErrors THEN USAGE_ERR
                    ELSE IF error \in ConfigErrors THEN CONFIG_ERR
                    ELSE FAILURE

\* C20, amended: cwd not a repository and no base found exit with 64, a
\* configuration error with 78, a snapshot that cannot be pushed with the
\* code to_sysexits derives from the io error, and every other failure,
\* amending a Fixup or Protected commit included, with 1.
C20_ExitCodesOfAmend ==
    (pc = "exit" /\ error # "none") =>
        IF error \in {"not_a_repo", "no_base"} THEN exit_code = USAGE_ERR
        ELSE IF error \in ConfigErrors THEN exit_code = CONFIG_ERR
        ELSE IF error = "snapshot_push" THEN exit_code \in SysexitsOfIo
        ELSE exit_code = FAILURE

\* exec ended with a failed run, after it had rejected nothing.
C20_Witness ==
    /\ pc = "exit" /\ error = "run" /\ exit_code = FAILURE
    /\ "run_failed" \in Done

\* ------------------------------------------------------------ RepoConfig
\* Bound of the model: the number of patterns one layer lists.
MaxPatterns == 2

\* Patterns a configuration file lists.
Patterns == {"/main", "/wip"}

\* What git2::Config::open_default gives from_defaults: no configuration,
\* or the name of the default branch.
GitConfigs == {"unreadable", "main", "trunk"}

DEFAULT_PROTECTED_BRANCHES == <<"/main", "/master", "/dev", "/stable">>

Lists == UNION {[1..n -> Patterns] : n \in 0..MaxPatterns}

\* Values of protected_branches.
Configs == {None} \cup {Some(l) : l \in Lists}

\* from_toml: the key is absent, or it lists any number of patterns.
WorkdirLayers == Configs

\* from_gitconfig: an empty multivar is None.
RepoLayers == {None} \cup {Some(l) : l \in Lists \ {<<>>}}

\* RepoConfig::from_defaults
from_defaults(gitconfig) ==
    Some((IF gitconfig = "unreadable" THEN <<>> ELSE <<"/" \o gitconfig>>)
         \o DEFAULT_PROTECTED_BRANCHES)

merge_Overwrite(self, other) ==
    IF other.some THEN other ELSE self

\* RepoConfig::merge
merge(self, other) ==
    CASE self.some /\ other.some -> Some(self.list \o other.list)
      [] ~self.some /\ other.some -> Some(other.list)
      [] OTHER -> self

\* let config = Self::from_defaults();
FromDefaults ==
    /\ loaded = "start"
    /\ config' = from_defaults(layers.gitconfig)
    /\ loaded' = "defaults"
    /\ UNCHANGED <<layers, gvars, avars>>

\* let config = config.merge(Self::from_workdir(repo)?);
MergeWorkdir ==
    /\ loaded = "defaults"
    /\ \/ /\ config' = merge(config, layers.workdir)
          /\ loaded' = "workdir"
       \/ /\ loaded' = "error"
          /\ UNCHANGED config
    /\ UNCHANGED <<layers, gvars, avars>>

\* let config = config.merge(Self::from_repo(repo)?);
MergeRepo ==
    /\ loaded = "workdir"
    /\ \/ /\ config' = merge(config, layers.repo)
          /\ loaded' = "repo"
       \/ /\ loaded' = "error"
          /\ UNCHANGED config
    /\ UNCHANGED <<layers, gvars, avars>>

InitConfig ==
    /\ layers \in [gitconfig : GitConfigs, workdir : WorkdirLayers,
                   repo : RepoLayers]
    /\ config = None
    /\ loaded = "start"
    /\ graph = [p \in {Root} |-> NewNode(Root, 0, <<>>)]
    /\ protected_oids = {}
    /\ last = "init"
    /\ again = FALSE
    /\ changed = FALSE
    /\ new_base = NoOid
    /\ onto = {}
    /\ frozen = {}
    /\ script = NoScript
    /\ AmendIdle

NextConfig ==
    \/ FromDefaults
    \/ MergeWorkdir
    \/ MergeRepo

SpecConfig == InitConfig /\ [][NextConfig]_vars

\* What a layer contributes: nothing when it is absent.
ListOf(c) == IF c.some THEN c.list ELSE <<>>

IsPrefix(s, l) == Len(s) <= Len(l) /\ SubSeq(l, 1, Len(s)) = s

\* C21: the protected_branches of from_all is the list of the defaults,
\* then that of the workdir file, then that of the repo config, an absent
\* layer contributing nothing; each merge keeps what was there as a prefix;
\* merge is associative and the default config is its identity.
C21_LayersConcatenate ==
    /\ loaded = "repo" =>
          config = Some(ListOf(from_defaults(layers.gitconfig))
                        \o ListOf(layers.workdir) \o ListOf(layers.repo))
    /\ loaded \in {"workdir", "repo", "error"} =>
          IsPrefix(ListOf(from_defaults(layers.gitconfig)), ListOf(config))
    /\ \A a \in Configs :
          /\ merge(merge(a, layers.workdir), layers.repo)
                = merge(a, merge(layers.workdir, layers.repo))
          /\ merge(merge(layers.workdir, a), layers.repo)
                = merge(layers.workdir, merge(a, layers.repo))
          /\ merge(None, a) = a
          /\ merge(a, None) = a

C21_Witness ==
    /\ loaded = "repo"
    /\ layers.workdir.some /\ layers.workdir.list # <<>>
    /\ layers.repo.some
    /\ Len(config.list) = Len(DEFAULT_PROTECTED_BRANCHES) + 1
                            + Len(layers.workdir.list) + Len(layers.repo.list)

\* --------------------------------------------------------- deeper graphs
\* Bound of the model: the number of nodes of a graph with stacks nested
\* two deep, the root included.
MaxDeepNodes == 5

\* What each node of a deeper graph carries.
DeepKinds == {"none", "work", "protected"}

\* Graphs of up to MaxDeepNodes nodes; the protected tips are the commits
\* that carry a protected branch.
InitDeep ==
    /\ \E n \in 1..MaxDeepNodes :
         \E sh \in Shapes(n) :
           \E kind \in [0..(n - 1) -> DeepKinds] :
             /\ graph = GraphOf(sh, n, [p \in 0..(n - 1) |-> BranchCount(kind[p])])
             /\ protected_oids = {p \in 0..(n - 1) : kind[p] = "protected"}
    /\ last = "init"
    /\ again = FALSE
    /\ changed = FALSE
    /\ new_base = NoOid
    /\ onto = {}
    /\ frozen = {}
    /\ script = NoScript
    /\ AmendIdle
    /\ ConfigIdle

\* protect_branches, then rebase_branches or not, then drop_by_tree_id or
\* not, then delinearize.
NextDeep ==
    \/ last = "init" /\ Protect
    \/ last = "protect" /\ RebaseBranches
    \/ last \in {"protect", "rebase"} /\ DropByTreeId
    \/ last \in {"protect", "rebase", "drop"} /\ Delinearize

SpecDeep == InitDeep /\ [][NextDeep]_vars

\* The places of a graph: stack k of node p, position i.
Places(g) ==
    UNION {UNION {{<<p, k, i>> : i \in 1..Len(g[p].stacks[k])} :
                    k \in 1..Len(g[p].stacks)} : p \in Nodes(g)}
At(g, pl) == g[pl[1]].stacks[pl[2]][pl[3]]

\* The nodes found below p within d levels of stacks.
RECURSIVE Below(_, _, _)
Below(g, p, d) ==
    IF d = 0 THEN {}
    ELSE UNION {Range(g[p].stacks[k])
                  \cup UNION {Below(g, m, d - 1) : m \in Range(g[p].stacks[k])} :
                k \in 1..Len(g[p].stacks)}

\* Every node but the root has one place, the root has none, and every node
\* is found from the root.
EachOnce(g) ==
    /\ \A pl \in Places(g) : At(g, pl) \in Nodes(g) \ {Root}
    /\ \A p1, p2 \in Places(g) : At(g, p1) = At(g, p2) => p1 = p2
    /\ {Root} \cup Below(g, Root, Cardinality(Nodes(g))) = Nodes(g)

\* The last Protected or Rebase node of stack s, NoOid when it has none.
LastFrontier(g, s) ==
    LET fs == {j \in 1..Len(s) : IsFrontier(g[s[j]].action)}
    IN  IF fs = {} THEN NoOid ELSE s[CHOOSE j \in fs : \A h \in fs : h <= j]

\* The nearest Protected or Rebase node before n in its stack, else the
\* node that owns the stack when it is Protected, Rebase or the root, else
\* the same of the owner.
RECURSIVE NearestFrontier(_, _)
NearestFrontier(g, n) ==
    LET s == StackOf(g, n)
        before == SubSeq(s, 1, IndexIn(s, n) - 1)
        o == Owner(g, n)
    IN  IF LastFrontier(g, before) # NoOid THEN LastFrontier(g, before)
        ELSE IF o = Root \/ IsFrontier(g[o].action) THEN o
        ELSE NearestFrontier(g, o)

\* Where stack_drop_by_tree_id puts the stacks of a node n it deletes: on the
\* last Protected or Rebase node of the stack of n; when that stack has
\* none, on the last Protected or Rebase node of the stack that holds the
\* owner of n's stack, or on the root when the root owns it.
DropTarget(g, n) ==
    LET o == Owner(g, n)
    IN  IF LastFrontier(g, StackOf(g, n)) # NoOid
        THEN LastFrontier(g, StackOf(g, n))
        ELSE IF o = Root THEN Root
        ELSE LastFrontier(g, StackOf(g, o))

\* The nodes a step of drop_by_tree_id marked Delete.
Dropped(g, g2) == {n \in Nodes(g) : g[n].action = Pick /\ g2[n].action = Delete}

\* C22 as stated: drop_by_tree_id keeps every node and every branch, each
\* node once and found from the root, and the stacks of each node it marks
\* Delete become stacks of the nearest preceding Protected or Rebase node:
\* in the same stack, else the nearest enclosing one, else the root.
C22_DropOrphansNothing ==
    [][last' = "drop" =>
         /\ Nodes(graph') = Nodes(graph)
         /\ EachOnce(graph')
         /\ \A n \in Nodes(graph) : graph'[n].branches = graph[n].branches
         /\ \A n \in Dropped(graph, graph') :
               /\ graph'[n].stacks = <<>>
               /\ Range(graph[n].stacks)
                     \subseteq Range(graph'[NearestFrontier(graph, n)].stacks)]_vars

\* C22, amended: drop_by_tree_id keeps every node and every branch, each
\* node once and found from the root, and the stacks of each node it marks
\* Delete are appended to the stacks of the last Protected or Rebase node of
\* the Delete node's stack; when that stack has none, to those of the last
\* Protected or Rebase node of the stack that holds the node its stack hangs
\* on, which need not be that node; and to those of the root when its stack
\* hangs on the root.
C22_DropReparentsToLastFrontier ==
    [][last' = "drop" =>
         /\ Nodes(graph') = Nodes(graph)
         /\ EachOnce(graph')
         /\ \A n \in Nodes(graph) : graph'[n].branches = graph[n].branches
         /\ \A n \in Dropped(graph, graph') :
               /\ graph'[n].stacks = <<>>
               /\ Range(graph[n].stacks)
                     \subseteq Range(graph'[DropTarget(graph, n)].stacks)
               /\ Range(graph[n].stacks)
                     \cap Range(graph[DropTarget(graph, n)].stacks) = {}]_vars

\* drop_by_tree_id deleted the only node of a stack that hangs on a
\* Protected or Rebase node, and its stack went to a later node of the
\* owner's stack (nodes are numbered depth first: the first node of the
\* first stack of n is n + 1).
C22_Witness ==
    /\ last = "drop" /\ ~again /\ changed
    /\ \E n \in NonRoot(graph) :
          LET o == Owner(graph, n)
          IN  /\ graph[n].action = Delete
              /\ StackOf(graph, n) = <<n>>
              /\ o # Root
              /\ LastFrontier(graph, StackOf(graph, o)) # o
              /\ \E k \in 1..Len(graph[LastFrontier(graph, StackOf(graph, o))].stacks) :
                    graph[LastFrontier(graph, StackOf(graph, o))].stacks[k][1]
                        = n + 1

\* --------------------------------------------------- the stash of amend
\* C23: on every path of exec on which stash_push was called, stash_pop is
\* called before exec returns, whether exec returns success or an error.
C23_StashAlwaysRestored ==
    (pc = "exit" /\ "stash_push" \in Done) => "stash_pop" \in Done

\* ------------------------------------------- the assertion of pushable
\* In every stack the Protected and Rebase nodes come first.
FrontierPrefix(g) ==
    \A n \in NonRoot(g) :
        IsFrontier(g[n].action) => \A m \in Before(g, n) : IsFrontier(g[m].action)

\* C24: on a graph that protect_branches made, with rebase_branches after it
\* or not, the Protected and Rebase nodes of every stack form a prefix of
\* it, and assert_eq!(cause, None) of pushable_stack does not fail: pushable
\* meets no Protected or Rebase node behind a node that set a cause.
C24_PushableAssertHolds ==
    /\ last # "panic"
    /\ last \in {"protect", "rebase", "pushable"} =>
          /\ FrontierPrefix(graph)
          /\ ~pushable(graph).panic

\* pushable came to a Protected or Rebase node of a stack, where it
\* asserts, and the same stack goes on with a node that sets a cause: one
\* with a WIP summary, or one with stacks and no branch.
C24_Witness ==
    /\ last = "pushable"
    /\ \E n, m \in NonRoot(graph) :
          /\ IsFrontier(graph[n].action) /\ PushReaches(graph, n)
          /\ n \in Before(graph, m) /\ PushReaches(graph, m)
          /\ ~IsFrontier(graph[m].action)
          /\ graph[m].wip \/ (graph[m].stacks # <<>> /\ graph[m].branches = <<>>)

\* ------------------------------------------------- the frame of delinearize
\* The commits from the root to n, in order.
RECURSIVE PathTo(_, _)
PathTo(g, n) == IF n = Root THEN <<Root>> ELSE Append(PathTo(g, Parent(g, n)), n)

\* The first nodes of the stacks of p, in the order of the stacks.
StackHeads(g, p) == [k \in 1..Len(g[p].stacks) |-> g[p].stacks[k][1]]

\* C25: delinearize keeps the nodes, each once and found from the root, with
\* their action, branches and pushable flag; the commits from the root to
\* each node are the same, in the same order, before and after; and the
\* stacks a node had keep their order, the tails split off coming after them.
C25_DelinearizeRegroups ==
    [][last' = "delinearize" =>
         /\ Nodes(graph') = Nodes(graph)
         /\ EachOnce(graph')
         /\ \A n \in Nodes(graph) :
               graph'[n] = [graph[n] EXCEPT !.stacks = graph'[n].stacks]
         /\ \A n \in Nodes(graph) : PathTo(graph', n) = PathTo(graph, n)
         /\ \A p \in Nodes(graph) :
               IsPrefix(StackHeads(graph, p), StackHeads(graph', p))]_vars

\* delinearize split a stack behind a node that carries a branch and had a
\* stack of its own: no other node with a branch has a stack, so the node
\* with two stacks got the tail.
C25_Witness ==
    /\ last = "delinearize" /\ ~again /\ changed
    /\ \E p \in NonRoot(graph) :
          /\ graph[p].branches # <<>>
          /\ Len(graph[p].stacks) >= 2
          /\ \A q \in NonRoot(graph) \ {p} :
                graph[q].branches = <<>> \/ graph[q].stacks = <<>>

====
